---------------------------- MODULE Spec2Model ----------------------------
(***************************************************************************)
(* Model of GEE_TopographicVariableExtractionScript.js: the thaw points    *)
(* are sampled against the terrain stack (elevation, slope, aspect), then  *)
(* three successive FeatureCollection.map passes attach mean_elev_100m,    *)
(* relative_elev and solar_radiation_index, and the result is exported     *)
(* as a CSV table.                                                         *)
(*                                                                         *)
(* Numbers are fixed point: elevations in centimetres, angles in degrees   *)
(* in hundredths of a degree, radians and trigonometric values in units    *)
(* of 1/10000.  The raster is a transect of 2 m cells; a cell that is not  *)
(* listed in Cells, or whose band is NULL, is masked (outside coverage).   *)
(***************************************************************************)
EXTENDS Integers, Sequences, FiniteSets, TLC

VARIABLES
    thawPoints,            \* the input FeatureCollection (line 26)
    terrainStack,          \* elevation/slope/aspect bands per cell (line 37)
    console,               \* what print() has written (line 29)
    sampledPoints,         \* result of sampleRegions (line 40)
    sampledWithMean100m,   \* first map (line 51), element by element
    withRelativeElev,      \* second map (line 69)
    withSRI,               \* third map (line 89)
    taskState,             \* state of the export task (line 120)
    exportedTable          \* rows of the exported CSV

vars == <<thawPoints, terrainStack, console, sampledPoints, sampledWithMean100m,
          withRelativeElev, withSRI, taskState, exportedTable>>

\* Earth Engine's null: a masked pixel, a missing geometry, an absent property.
\* A value that may be null is <<>> or <<v>>.
NULL == <<>>
\* An element of a mapped collection is <<>> until it is evaluated, then <<f>>.
Pending == <<>>

\* Largest number of features in the input collection.
MaxPoints == 2

\* scale: 2 of sampleRegions and reduceRegion, in metres.
Scale == 2
\* point.geometry().buffer(100), in metres.
BufferRadius == 100
\* The fixed-point unit of radians and of trigonometric values.
One == 10000
\* Math.PI in units of 1/10000.
PI == 31416
\* 23.44 and 136.52 degrees, in hundredths of a degree.
DeclinationDeg == 2344
AzimuthDeg == 13652

------------------------------------------------------------------------------
(* ee.Number arithmetic *)

Abs(x) == IF x < 0 THEN -x ELSE x

\* Product of two fixed-point values, rounded toward zero.
Mul(a, b) ==
    LET p == (Abs(a) * Abs(b)) \div One
    IN  IF (a < 0) = (b < 0) THEN p ELSE -p

\* .multiply(Math.PI).divide(180) on an angle in hundredths of a degree.
ToRadians(deg) == (deg * PI) \div 18000

\* cos(x / 10000) * 10000, rounded toward zero, at the angles the model uses.
CosTable ==
    -55243 :> 7256 @@ -53498 :> 5951 @@ -51152 :> 3920 @@ -48037 :> 911 @@ -43946 :> -3124 @@
    -39535 :> -6881 @@ -31416 :> -9999 @@ -29671 :> -9848 @@ -27325 :> -9174 @@ -24210 :> -7514 @@
    -23827 :> -7255 @@ -22082 :> -5951 @@ -20119 :> -4269 @@ -19736 :> -3919 @@ -16621 :> -911 @@
    -15708 :> 0 @@ -13963 :> 1736 @@ -12530 :> 3124 @@ -11617 :> 3977 @@ -11297 :> 4269 @@
    -9552 :> 5774 @@ -8502 :> 6598 @@ -8119 :> 6881 @@ -7589 :> 7255 @@ -7206 :> 7514 @@
    -5461 :> 8545 @@ -4411 :> 9042 @@ -4091 :> 9174 @@ -3115 :> 9518 @@ -2346 :> 9726 @@
    -1745 :> 9848 @@ 0 :> 10000 @@ 1745 :> 9848 @@ 2346 :> 9726 @@ 3115 :> 9518 @@
    4091 :> 9174 @@ 4411 :> 9042 @@ 5461 :> 8545 @@ 7206 :> 7514 @@ 7589 :> 7255 @@
    8119 :> 6881 @@ 8502 :> 6598 @@ 9552 :> 5774 @@ 11297 :> 4269 @@ 11617 :> 3977 @@
    12530 :> 3124 @@ 13963 :> 1736 @@ 15708 :> 0 @@ 16621 :> -911 @@ 19736 :> -3919 @@
    20119 :> -4269 @@ 22082 :> -5951 @@ 23827 :> -7255 @@ 24210 :> -7514 @@ 27325 :> -9174 @@
    29671 :> -9848 @@ 31416 :> -9999 @@ 39535 :> -6881 @@ 43946 :> -3124 @@ 48037 :> 911 @@
    51152 :> 3920 @@ 53498 :> 5951 @@ 55243 :> 7256

\* sin(x / 10000) * 10000, rounded toward zero.
SinTable ==
    -55243 :> 6881 @@ -53498 :> 8036 @@ -51152 :> 9199 @@ -48037 :> 9958 @@ -43946 :> 9499 @@
    -39535 :> 7256 @@ -31416 :> 0 @@ -29671 :> -1736 @@ -27325 :> -3977 @@ -24210 :> -6598 @@
    -23827 :> -6881 @@ -22082 :> -8036 @@ -20119 :> -9042 @@ -19736 :> -9199 @@ -16621 :> -9958 @@
    -15708 :> -9999 @@ -13963 :> -9848 @@ -12530 :> -9499 @@ -11617 :> -9174 @@ -11297 :> -9042 @@
    -9552 :> -8164 @@ -8502 :> -7514 @@ -8119 :> -7255 @@ -7589 :> -6881 @@ -7206 :> -6598 @@
    -5461 :> -5193 @@ -4411 :> -4269 @@ -4091 :> -3977 @@ -3115 :> -3064 @@ -2346 :> -2324 @@
    -1745 :> -1736 @@ 0 :> 0 @@ 1745 :> 1736 @@ 2346 :> 2324 @@ 3115 :> 3064 @@
    4091 :> 3977 @@ 4411 :> 4269 @@ 5461 :> 5193 @@ 7206 :> 6598 @@ 7589 :> 6881 @@
    8119 :> 7255 @@ 8502 :> 7514 @@ 9552 :> 8164 @@ 11297 :> 9042 @@ 11617 :> 9174 @@
    12530 :> 9499 @@ 13963 :> 9848 @@ 15708 :> 9999 @@ 16621 :> 9958 @@ 19736 :> 9199 @@
    20119 :> 9042 @@ 22082 :> 8036 @@ 23827 :> 6881 @@ 24210 :> 6598 @@ 27325 :> 3977 @@
    29671 :> 1736 @@ 31416 :> 0 @@ 39535 :> -7256 @@ 43946 :> -9499 @@ 48037 :> -9958 @@
    51152 :> -9199 @@ 53498 :> -8036 @@ 55243 :> -6881

\* Number.cos() and Number.sin(): the table value, rounded toward zero.
Cos(x) == CosTable[x]
Sin(x) == SinTable[x]

solarDeclination == ToRadians(DeclinationDeg)
solarAzimuth == ToRadians(AzimuthDeg)

------------------------------------------------------------------------------
(* Features *)

\* feature.get(name): null when the property is absent.
Get(feature, name) ==
    IF name \in DOMAIN feature.properties THEN <<feature.properties[name]>>
    ELSE NULL

\* feature.set(name, value): a null value leaves the property unset.
Set(feature, name, value) ==
    [feature EXCEPT !.properties =
        IF value = NULL
        THEN [n \in (DOMAIN feature.properties) \ {name} |-> feature.properties[n]]
        ELSE [n \in (DOMAIN feature.properties) \cup {name} |->
                 IF n = name THEN value[1] ELSE feature.properties[n]]]

------------------------------------------------------------------------------
(* The raster *)

\* The cells of the transect that carry data; cell c spans [2c, 2c+2) metres.
Cells == {0, 1, 49, 52}

Masked    == [elevation |-> NULL,  slope |-> NULL, aspect |-> NULL]
EdgePixel == [elevation |-> <<9000>>,  slope |-> NULL, aspect |-> NULL]
FlatNoAsp == [elevation |-> <<10000>>, slope |-> <<0>>,    aspect |-> NULL]
FlatPixel == [elevation |-> <<10000>>, slope |-> <<0>>,    aspect |-> <<9000>>]
SouthFace == [elevation |-> <<12000>>, slope |-> <<1000>>, aspect |-> <<18000>>]
SunFacing == [elevation |-> <<13000>>, slope |-> <<4129>>, aspect |-> <<13652>>]
CliffAway == [elevation |-> <<11000>>, slope |-> <<9000>>, aspect |-> <<31652>>]

\* The values each cell of the transect may hold.
CellChoices(c) ==
    CASE c = 0  -> {Masked, FlatNoAsp, SouthFace}
      [] c = 1  -> {Masked, FlatPixel, SunFacing}
      [] c = 49 -> {Masked, EdgePixel, CliffAway}
      [] OTHER  -> {Masked, SouthFace, FlatPixel}

\* The value of a band at a cell; cells off the transect are masked.
Band(stack, name, c) == IF c \in Cells THEN stack[c][name] ELSE NULL

\* arcticDEM: the elevation band alone.
arcticDEM(stack, c) == Band(stack, "elevation", c)

CellOf(x) == x \div Scale
CellCenter(c) == c * Scale + Scale \div 2

RECURSIVE SumOver(_, _)
SumOver(f, S) ==
    IF S = {} THEN 0
    ELSE LET c == CHOOSE c \in S : TRUE IN f[c] + SumOver(f, S \ {c})

\* The mean of the slope band over the buffer, which is what the comment at
\* lines 65-67 describes.
MeanInBufferOfSlope(stack, x) ==
    LET inside == {c \in Cells : /\ Abs(CellCenter(c) - x) <= BufferRadius
                                 /\ Band(stack, "slope", c) # NULL}
    IN  IF inside = {} THEN NULL
        ELSE <<SumOver([c \in inside |-> Band(stack, "slope", c)[1]], inside)
                  \div Cardinality(inside)>>

\* reduceRegion(ee.Reducer.mean(), buffer, scale 2).get('elevation'): the mean of
\* the unmasked cells whose centre lies in the buffer, null when there are none.
MeanInBuffer(stack, x) ==
    LET inside == {c \in Cells : /\ Abs(CellCenter(c) - x) <= BufferRadius
                                 /\ arcticDEM(stack, c) # NULL}
    IN  IF inside = {} THEN NULL
        ELSE <<SumOver([c \in inside |-> arcticDEM(stack, c)[1]], inside)
                  \div Cardinality(inside)>>

------------------------------------------------------------------------------
(* The stages *)

BandNames == {"elevation", "slope", "aspect"}

\* Whether sampleRegions yields a feature for an input feature: its geometry
\* must intersect a pixel at which every band of the stack is unmasked.
Sampled(stack, f) ==
    /\ f.geometry # NULL
    /\ \A b \in BandNames : Band(stack, b, CellOf(f.geometry[1])) # NULL

\* The feature sampleRegions yields: the input's properties plus one property
\* per band, the geometry (geometries: true) snapped to the pixel centre.
SampleFeature(stack, f) ==
    LET c == CellOf(f.geometry[1])
    IN  [id |-> f.id,
         geometry |-> <<CellCenter(c), f.geometry[2]>>,
         properties |-> [n \in (DOMAIN f.properties) \cup BandNames |->
                            IF n \in BandNames THEN Band(stack, n, c)[1]
                            ELSE f.properties[n]]]

RECURSIVE SampleRegions(_, _)
SampleRegions(stack, collection) ==
    IF collection = <<>> THEN <<>>
    ELSE LET f == Head(collection)
             rest == SampleRegions(stack, Tail(collection))
         IN  IF Sampled(stack, f) THEN <<SampleFeature(stack, f)>> \o rest
             ELSE rest

\* The function mapped at line 51.
MeanElev100m(stack, point) ==
    Set(point, "mean_elev_100m", MeanInBuffer(stack, point.geometry[1]))

\* ee.Number(...).subtract(...) raises when an operand is null.
RelativeElevRaises(feature) ==
    Get(feature, "elevation") = NULL \/ Get(feature, "mean_elev_100m") = NULL

\* A relative elevation stage that also writes its result over 'elevation'.
RelativeElevInPlace(feature) ==
    LET elevation == Get(feature, "elevation")[1]
        meanElev == Get(feature, "mean_elev_100m")[1]
        relativeElev == elevation - meanElev
    IN  Set(Set(feature, "elevation", <<relativeElev>>),
            "relative_elev", <<relativeElev>>)

\* The function mapped at line 69.
RelativeElev(feature) ==
    LET elevation == Get(feature, "elevation")[1]
        meanElev == Get(feature, "mean_elev_100m")[1]
        relativeElev == elevation - meanElev
    IN  Set(feature, "relative_elev", <<relativeElev>>)

\* The formula with .cos() left off slopeRad in the first term.
SRIFormulaNoSlopeCos(slopeRad, aspectRad, latRad) ==
    LET solarZenith == Abs(latRad - solarDeclination)
    IN  Mul(Cos(solarZenith), slopeRad)
          + Mul(Mul(Sin(solarZenith), Sin(slopeRad)),
                Cos(aspectRad - solarAzimuth))

\* The formula with slopeRad.cos() where the second term has slopeRad.sin().
SRIFormulaCosForSin(slopeRad, aspectRad, latRad) ==
    LET solarZenith == Abs(latRad - solarDeclination)
    IN  Mul(Cos(solarZenith), Cos(slopeRad))
          + Mul(Mul(Sin(solarZenith), Cos(slopeRad)),
                Cos(aspectRad - solarAzimuth))

\* The formula with the two solar constants exchanged.
SRIFormulaConstantsSwapped(slopeRad, aspectRad, latRad) ==
    LET solarZenith == Abs(latRad - solarAzimuth)
    IN  Mul(Cos(solarZenith), Cos(slopeRad))
          + Mul(Mul(Sin(solarZenith), Sin(slopeRad)),
                Cos(aspectRad - solarDeclination))

\* The solar radiation index of lines 100-108, from angles in radians.
SRIFormula(slopeRad, aspectRad, latRad) ==
    LET solarZenith == Abs(latRad - solarDeclination)
    IN  Mul(Cos(solarZenith), Cos(slopeRad))
          + Mul(Mul(Sin(solarZenith), Sin(slopeRad)),
                Cos(aspectRad - solarAzimuth))

\* ee.Number(...).multiply(...) raises when the property or the geometry is null.
SRIRaises(feature) ==
    \/ Get(feature, "slope") = NULL
    \/ Get(feature, "aspect") = NULL
    \/ feature.geometry = NULL

\* The function mapped at line 89; the latitude is coordinates().get(1).
SRI(feature) ==
    LET slopeRad == ToRadians(Get(feature, "slope")[1])
        aspectRad == ToRadians(Get(feature, "aspect")[1])
        lat == feature.geometry[2]
        latRad == ToRadians(lat)
        sri == SRIFormula(slopeRad, aspectRad, latRad)
    IN  Set(feature, "solar_radiation_index", <<sri>>)

------------------------------------------------------------------------------
(* Inputs *)

\* The geometries <<x, latitude>> an input feature may have: x in metres along
\* the transect, the latitude in hundredths of a degree; NULL is a missing
\* coordinate.
Locations ==
    {NULL, <<0, 6473>>, <<3, 2344>>, <<3, 6473>>, <<99, 6473>>, <<104, 0>>,
     <<300, 6473>>}

InputFeature(i, g) ==
    [id |-> i, geometry |-> g, properties |-> [ThawID |-> 100 + i]]

Collections ==
    UNION {[1..n -> Locations] : n \in 1..MaxPoints}

Rasters ==
    {s \in [Cells -> UNION {CellChoices(c) : c \in Cells}] :
        \A c \in Cells : s[c] \in CellChoices(c)}

AllPending(n) == [i \in 1..n |-> Pending]

Init ==
    /\ \E gs \in Collections :
          thawPoints = [i \in DOMAIN gs |-> InputFeature(i, gs[i])]
    /\ terrainStack \in Rasters
    /\ console = <<>>
    /\ sampledPoints = <<>>
    /\ sampledWithMean100m = <<>>
    /\ withRelativeElev = <<>>
    /\ withSRI = <<>>
    /\ taskState = "UNSUBMITTED"
    /\ exportedTable = <<>>

------------------------------------------------------------------------------
(* Actions *)

\* Running the script: print(arcticDEM.bandNames()), and the export task is
\* submitted.
RunScript ==
    /\ taskState = "UNSUBMITTED"
    /\ console' = Append(console, [kind |-> "bandNames", value |-> <<"elevation">>])
    /\ taskState' = "READY"
    /\ UNCHANGED <<thawPoints, terrainStack, sampledPoints, sampledWithMean100m,
                   withRelativeElev, withSRI, exportedTable>>

\* terrainStack.sampleRegions({collection: thawPoints, scale: 2, geometries: true})
DoSampleRegions ==
    /\ taskState = "READY"
    /\ taskState' = "RUNNING"
    /\ sampledPoints' = SampleRegions(terrainStack, thawPoints)
    /\ sampledWithMean100m' = AllPending(Len(sampledPoints'))
    /\ withRelativeElev' = AllPending(Len(sampledPoints'))
    /\ withSRI' = AllPending(Len(sampledPoints'))
    /\ UNCHANGED <<thawPoints, terrainStack, console, exportedTable>>

\* One element of sampledPoints.map(...), line 51.
MapMean100m ==
    /\ taskState = "RUNNING"
    /\ \E i \in DOMAIN sampledPoints :
          /\ sampledWithMean100m[i] = Pending
          /\ sampledWithMean100m' =
                [sampledWithMean100m EXCEPT
                    ![i] = <<MeanElev100m(terrainStack, sampledPoints[i])>>]
    /\ UNCHANGED <<thawPoints, terrainStack, console, sampledPoints,
                   withRelativeElev, withSRI, taskState, exportedTable>>

\* One element of sampledWithMean100m.map(...), line 69; the task fails if the
\* mapped function raises.
MapRelativeElev ==
    /\ taskState = "RUNNING"
    /\ \E i \in DOMAIN sampledWithMean100m :
          /\ sampledWithMean100m[i] # Pending
          /\ withRelativeElev[i] = Pending
          /\ IF RelativeElevRaises(sampledWithMean100m[i][1])
             THEN taskState' = "FAILED" /\ withRelativeElev' = withRelativeElev
             ELSE /\ taskState' = taskState
                  /\ withRelativeElev' =
                        [withRelativeElev EXCEPT
                            ![i] = <<RelativeElev(sampledWithMean100m[i][1])>>]
    /\ UNCHANGED <<thawPoints, terrainStack, console, sampledPoints,
                   sampledWithMean100m, withSRI, exportedTable>>

\* A third map that stores each result in the first free place, so that the
\* collection is in the order of completion.
MapSRICompletionOrder ==
    /\ taskState = "RUNNING"
    /\ \E i \in DOMAIN withRelativeElev :
          /\ withRelativeElev[i] # Pending
          /\ \E j \in DOMAIN withSRI :
                /\ withSRI[j] = Pending
                /\ \A k \in 1..(j - 1) : withSRI[k] # Pending
                /\ \A k \in DOMAIN withSRI :
                      withSRI[k] # Pending => withSRI[k][1].id # withRelativeElev[i][1].id
                /\ withSRI' = [withSRI EXCEPT ![j] = <<SRI(withRelativeElev[i][1])>>]
    /\ UNCHANGED <<thawPoints, terrainStack, console, sampledPoints,
                   sampledWithMean100m, withRelativeElev, taskState, exportedTable>>

\* One element of withRelativeElev.map(...), line 89.
MapSRI ==
    /\ taskState = "RUNNING"
    /\ \E i \in DOMAIN withRelativeElev :
          /\ withRelativeElev[i] # Pending
          /\ withSRI[i] = Pending
          /\ IF SRIRaises(withRelativeElev[i][1])
             THEN taskState' = "FAILED" /\ withSRI' = withSRI
             ELSE /\ taskState' = taskState
                  /\ withSRI' =
                        [withSRI EXCEPT ![i] = <<SRI(withRelativeElev[i][1])>>]
    /\ UNCHANGED <<thawPoints, terrainStack, console, sampledPoints,
                   sampledWithMean100m, withRelativeElev, exportedTable>>

\* Export.table.toDrive({collection: withSRI, fileFormat: 'CSV'}): one row per
\* feature of withSRI, in the collection's order.
ExportTable ==
    /\ taskState = "RUNNING"
    /\ \A i \in DOMAIN withSRI : withSRI[i] # Pending
    /\ exportedTable' = [i \in DOMAIN withSRI |-> withSRI[i][1]]
    /\ taskState' = "COMPLETED"
    /\ UNCHANGED <<thawPoints, terrainStack, console, sampledPoints,
                   sampledWithMean100m, withRelativeElev, withSRI>>

Next ==
    \/ RunScript
    \/ DoSampleRegions
    \/ MapMean100m
    \/ MapRelativeElev
    \/ MapSRI
    \/ ExportTable

Spec == Init /\ [][Next]_vars

\* Inputs for the solar radiation index: one point in a cell of the given
\* slope and aspect, over the product of slopes, aspects and latitudes.
Slopes == {0, 1000, 4129, 9000}
Aspects == {0, 9000, 13652, 18000, 31652}
Latitudes == {0, 2344, 6473, 9000}

SRIInit ==
    /\ \E lat \in Latitudes : thawPoints = <<InputFeature(1, <<3, lat>>)>>
    /\ \E s \in Slopes, a \in Aspects :
          terrainStack =
             [c \in Cells |->
                 IF c = 1
                 THEN [elevation |-> <<10000>>, slope |-> <<s>>, aspect |-> <<a>>]
                 ELSE Masked]
    /\ console = <<>>
    /\ sampledPoints = <<>>
    /\ sampledWithMean100m = <<>>
    /\ withRelativeElev = <<>>
    /\ withSRI = <<>>
    /\ taskState = "UNSUBMITTED"
    /\ exportedTable = <<>>

SRISpec == SRIInit /\ [][Next]_vars

------------------------------------------------------------------------------
(* Properties *)

Completed == taskState = "COMPLETED"

\* The rows of the exported table that come from input feature i.
RowsOf(i) == {k \in DOMAIN exportedTable : exportedTable[k].id = thawPoints[i].id}

DerivedFields ==
    {"elevation", "slope", "aspect", "mean_elev_100m", "relative_elev",
     "solar_radiation_index"}

\* The unmasked elevation cells of the raster whose centre is within the
\* buffer radius of x.
CoveredCells(x) ==
    {c \in Cells : /\ Abs(CellCenter(c) - x) <= BufferRadius
                   /\ terrainStack[c].elevation # NULL}

\* Input feature i has a coordinate and none of the three bands has a value
\* at it.
OutsideExtent(i) ==
    /\ thawPoints[i].geometry # NULL
    /\ \A b \in BandNames :
          Band(terrainStack, b, CellOf(thawPoints[i].geometry[1])) = NULL

\* C1: when the export has completed, the table has exactly one row per input
\* point, and a point outside the raster extent has a row whose derived fields
\* are all missing.
C1_OneRowPerInputPoint ==
    Completed =>
       /\ Len(exportedTable) = Len(thawPoints)
       /\ \A i \in DOMAIN thawPoints :
             /\ Cardinality(RowsOf(i)) = 1
             /\ OutsideExtent(i) =>
                   \A k \in RowsOf(i) :
                      DOMAIN exportedTable[k].properties \cap DerivedFields = {}

C3_SRIWithinUnitInterval ==
    \A i \in DOMAIN withSRI :
       withSRI[i] # Pending =>
          /\ withSRI[i][1].properties.solar_radiation_index >= -One
          /\ withSRI[i][1].properties.solar_radiation_index <= One

\* C3 witness: a slope that faces the sun squarely (slope = zenith, aspect =
\* azimuth), whose index is at the top of the interval.
C3_Witness ==
    \E i \in DOMAIN withSRI :
       /\ withSRI[i] # Pending
       /\ withSRI[i][1].properties.slope = 4129
       /\ withSRI[i][1].properties.aspect = AzimuthDeg
       /\ withSRI[i][1].geometry[2] = 6473
       /\ withSRI[i][1].properties.solar_radiation_index >= One - 2

\* The solar zenith of a feature: |latitude - declination|, in radians.
ZenithOf(f) == Abs(ToRadians(f.geometry[2]) - ToRadians(DeclinationDeg))

\* C4: a feature of slope 0 has solar_radiation_index = cos(solarZenith),
\* whatever its aspect.
C4_FlatSRIIsCosZenith ==
    \A i \in DOMAIN withSRI :
       (withSRI[i] # Pending /\ withSRI[i][1].properties.slope = 0) =>
          withSRI[i][1].properties.solar_radiation_index
             = Cos(ZenithOf(withSRI[i][1]))

\* C4 witness: a flat feature away from the declination latitude whose aspect
\* is neither 0 nor the solar azimuth.
C4_Witness ==
    \E i \in DOMAIN withSRI :
       /\ withSRI[i] # Pending
       /\ withSRI[i][1].properties.slope = 0
       /\ withSRI[i][1].properties.aspect = 31652
       /\ withSRI[i][1].geometry[2] = 6473

\* C5: a feature at the latitude of the declination has solar_radiation_index
\* = cos(slopeRad), whatever its aspect and slope.
C5_SRIAtDeclinationIsCosSlope ==
    \A i \in DOMAIN withSRI :
       (withSRI[i] # Pending /\ withSRI[i][1].geometry[2] = DeclinationDeg) =>
          withSRI[i][1].properties.solar_radiation_index
             = Cos(ToRadians(withSRI[i][1].properties.slope))

\* C5 witness: a sloping feature at latitude 23.44 that faces away from the sun.
C5_Witness ==
    \E i \in DOMAIN withSRI :
       /\ withSRI[i] # Pending
       /\ withSRI[i][1].geometry[2] = DeclinationDeg
       /\ withSRI[i][1].properties.slope = 1000
       /\ withSRI[i][1].properties.aspect = 31652

\* C6: the run never aborts, and when it has completed the console holds a
\* report whose counts of processed and excluded points add up to the number
\* of input points.
C6_ReportAccountsForEveryPoint ==
    /\ taskState # "FAILED"
    /\ Completed =>
          \E k \in DOMAIN console :
             /\ console[k].kind = "report"
             /\ console[k].processed + console[k].excluded = Len(thawPoints)

\* The record the three mapped functions give the sampled feature of f.
RecordOf(f) ==
    SRI(RelativeElev(MeanElev100m(terrainStack, SampleFeature(terrainStack, f))))

\* The input features that have a pixel with every band unmasked, in input order.
RECURSIVE Kept(_)
Kept(collection) ==
    IF collection = <<>> THEN <<>>
    ELSE IF Sampled(terrainStack, Head(collection))
         THEN <<Head(collection)>> \o Kept(Tail(collection))
         ELSE Kept(Tail(collection))

\* C7: whatever the order in which the elements were evaluated, the exported
\* table is the same: its rows are in input order, and each row is the record
\* computed from that point alone, the raster and the constants.
C7_OutputIndependentOfSchedule ==
    Completed =>
       LET kept == Kept(thawPoints)
       IN  /\ Len(exportedTable) = Len(kept)
           /\ \A k \in DOMAIN exportedTable :
                 exportedTable[k] = RecordOf(kept[k])

\* C7 witness: a completed export with two rows from different places.
C7_Witness ==
    /\ Completed
    /\ Len(exportedTable) >= 2
    /\ exportedTable[1].geometry # exportedTable[2].geometry
    /\ exportedTable[1].properties.solar_radiation_index
          # exportedTable[2].properties.solar_radiation_index

\* C8: when the export has completed, an input point whose buffer covers no
\* valid cell has a row in which relative_elev is missing, and an input point
\* with a valid elevation whose buffer is covered in part has a row in which
\* relative_elev is defined.
C8_MissingMeanGivesMissingRelativeElev ==
    Completed =>
       \A i \in DOMAIN thawPoints :
          thawPoints[i].geometry # NULL =>
             LET x == thawPoints[i].geometry[1] IN
             /\ CoveredCells(x) = {} =>
                   \E k \in RowsOf(i) :
                      "relative_elev" \notin DOMAIN exportedTable[k].properties
             /\ (CoveredCells(x) # {} /\ arcticDEM(terrainStack, CellOf(x)) # NULL) =>
                   \E k \in RowsOf(i) :
                      "relative_elev" \in DOMAIN exportedTable[k].properties

\* C9: when the export has completed, an input point on a flat cell (slope 0)
\* whose aspect is undefined has a row with solar_radiation_index =
\* cos(solarZenith).
C9_FlatUndefinedAspectHasSRI ==
    Completed =>
       \A i \in DOMAIN thawPoints :
          (/\ thawPoints[i].geometry # NULL
           /\ Band(terrainStack, "slope", CellOf(thawPoints[i].geometry[1])) = <<0>>
           /\ Band(terrainStack, "aspect", CellOf(thawPoints[i].geometry[1])) = NULL)
          => \E k \in RowsOf(i) :
                /\ "solar_radiation_index" \in DOMAIN exportedTable[k].properties
                /\ exportedTable[k].properties.solar_radiation_index
                      = Cos(ZenithOf(thawPoints[i]))

\* Feature g is feature f with exactly the property `name` added.
Attaches(f, g, name) ==
    /\ g.id = f.id
    /\ g.geometry = f.geometry
    /\ name \notin DOMAIN f.properties
    /\ DOMAIN g.properties = DOMAIN f.properties \cup {name}
    /\ \A n \in DOMAIN f.properties : g.properties[n] = f.properties[n]

\* C10: an element reaches a stage only after the stage before it, and each
\* stage's feature is the previous stage's feature with its own one field
\* added: mean_elev_100m, then relative_elev, then solar_radiation_index.
C10_StagesOnlyAttachTheirField ==
    /\ \A i \in DOMAIN sampledWithMean100m :
          sampledWithMean100m[i] # Pending =>
             Attaches(sampledPoints[i], sampledWithMean100m[i][1], "mean_elev_100m")
    /\ \A i \in DOMAIN withRelativeElev :
          withRelativeElev[i] # Pending =>
             /\ sampledWithMean100m[i] # Pending
             /\ Attaches(sampledWithMean100m[i][1], withRelativeElev[i][1],
                         "relative_elev")
    /\ \A i \in DOMAIN withSRI :
          withSRI[i] # Pending =>
             /\ withRelativeElev[i] # Pending
             /\ Attaches(withRelativeElev[i][1], withSRI[i][1],
                         "solar_radiation_index")
    /\ \A k \in DOMAIN exportedTable : exportedTable[k] = withSRI[k][1]

\* C10 witness: a feature that has been through all three stages while
\* another is still waiting for its first.
C10_Witness ==
    \E i, j \in DOMAIN withSRI :
       /\ withSRI[i] # Pending
       /\ sampledWithMean100m[j] = Pending

==============================================================================
